---- MODULE Spec2Model ----
(***************************************************************************)
(* Room Availability Query System (src/web/js/app.js).                     *)
(*                                                                         *)
(* The page loads a CSV of room schedules and a timestamp file, renders    *)
(* the rows of the selected room and lets the user jump to a date.         *)
(*                                                                         *)
(* Strings are modelled by the pieces the code takes them apart into:      *)
(* a date string "2024-03-01" is [sep |-> "-", parts |-> <<2024, 3, 1>>]   *)
(* (what split('-') yields, zero padding makes the lexicographic order of  *)
(* the strings the lexicographic order of the parts); the label "03/01" is *)
(* [sep |-> "/", parts |-> <<3, 1>>].  Status and message strings are      *)
(* written in ASCII: "available" stands for the sentinel of line 278.       *)
(***************************************************************************)
EXTENDS Integers, Sequences, FiniteSets, TLC

VARIABLES
    pc,            \* position of init(): "idle", "loading", "ready", "rejected"
    unhandled,     \* TRUE once a promise rejection was left without a handler
    tsPc,          \* position of loadLastUpdate(): "idle", "fetching", "done"
    lastUpdate,    \* textContent of #last-update
    allData,       \* global allData
    currentRoom,   \* global currentRoom
    dateRange,     \* global dateRange
    roomSelect,    \* value of #room-select
    datePicker,    \* #date-picker: [value, min, max]
    dateRangeInfo, \* textContent of #date-range
    tbody,         \* the <tr> elements of #table-body, in order
    stats,         \* <<available-count, occupied-count>>, <<>> while still the markup's
    highlight,     \* indices of the rows of tbody that carry class highlight-row
    timers,        \* pending 300 ms highlight timers, oldest first; each holds its
                   \* targetRow: an index of tbody, or 0 for a row element that a
                   \* later render removed from the document
    scroll,        \* index of the row of tbody last scrolled into view, 0 if none
    toast,         \* the #toast element: [created, text, opacity]
    toastTimers,   \* number of pending 3000 ms timers that hide the toast
    nav            \* outcome of the latest jumpToDate call: [state, date, row]

vars == <<pc, unhandled, tsPc, lastUpdate, allData, currentRoom, dateRange,
          roomSelect, datePicker, dateRangeInfo, tbody, stats, highlight,
          timers, scroll, toast, toastTimers, nav>>

(***************************************************************************)
(* Bounds of the model.                                                    *)
(***************************************************************************)
MaxRows == 2          \* records in the parsed CSV
MaxTimers == 2        \* pending highlight timers
MaxToastTimers == 2   \* pending toast-hide timers

(***************************************************************************)
(* JavaScript values.                                                      *)
(***************************************************************************)
Str(sep, parts) == [sep |-> sep, parts |-> parts]
Null == Str("null", <<>>)
Empty == Str("", <<>>)
Iso(y, m, d) == Str("-", <<y, m, d>>)

Truthy(v) == v # Null /\ v # Empty

\* a < b on two strings of the same separator: lexicographic on the parts
RECURSIVE SeqLess(_, _)
SeqLess(a, b) ==
    IF b = <<>> THEN FALSE
    ELSE IF a = <<>> THEN TRUE
    ELSE IF Head(a) # Head(b) THEN Head(a) < Head(b)
    ELSE SeqLess(Tail(a), Tail(b))

\* JS relational operators on a string and a string-or-null: a non-numeric
\* string against null compares NaN with 0, which is false either way
JsLt(a, b) == IF a = Null \/ b = Null THEN FALSE ELSE SeqLess(a.parts, b.parts)
JsGe(a, b) == IF a = Null \/ b = Null THEN FALSE ELSE ~SeqLess(a.parts, b.parts)
JsLe(a, b) == IF a = Null \/ b = Null THEN FALSE ELSE ~SeqLess(b.parts, a.parts)

(***************************************************************************)
(* Configuration and literals of the source.                               *)
(***************************************************************************)
CONFIG == [defaultRoom |-> "G201"]

AVAILABLE == "available"
Periods == {"morning", "afternoon", "evening"}

MsgLoadFailed == "cannot load data, try again later"
MsgNoData == "no data found"
MsgNotFound == "no data for that date"
MsgClampLow == "today is out of range, jumped to the earliest date"
MsgClampHigh == "today is out of range, jumped to the latest date"

LabelMarkup == "markup"      \* whatever the static page holds in #last-update
LabelUnknown == "unknown"    \* the fallback label
LabelStamp == "stamp"        \* the label built from the file's trimmed text

(***************************************************************************)
(* Inputs.                                                                 *)
(***************************************************************************)
D0 == Iso(2024, 2, 15)
D1 == Iso(2024, 3, 1)
D2 == Iso(2024, 3, 2)
D3 == Iso(2024, 4, 1)

RoomIds == {"G201", "G202"}
Todays == {D0, D1, D3}           \* what new Date() can give on a click
PickDates == {D1, D2, Empty}     \* what the date picker can hold on a change

Weekday(d) == IF d = D1 THEN "Fri" ELSE "Sat"

Row(d, r, mo, af, ev) ==
    [date |-> d, room_id |-> r, weekday |-> Weekday(d),
     morning |-> mo, afternoon |-> af, evening |-> ev]

\* records of the navigation runs: two dates in two rooms, and a record
\* without a date
NavRecords ==
    {Row(d, r, AVAILABLE, "occupied", AVAILABLE) : d \in {D1, D2}, r \in RoomIds}
    \cup {Row(Empty, "G201", AVAILABLE, AVAILABLE, "occupied")}

\* records of the statistics runs: every combination of statuses, one of them
\* a string that is neither sentinel, and records without a date or a room
StatRecords ==
    {Row(D1, r, mo, af, ev) : r \in RoomIds,
                              mo \in {AVAILABLE, "occupied", "closed"},
                              af \in {AVAILABLE, "occupied"},
                              ev \in {AVAILABLE, "occupied"}}
    \cup {Row(Empty, "G201", AVAILABLE, AVAILABLE, AVAILABLE),
          Row(D1, "", AVAILABLE, AVAILABLE, AVAILABLE)}

SeqsUpTo(S, n) == UNION {[1..k -> S] : k \in 0..n}

NavResults == SeqsUpTo(NavRecords, MaxRows)
StatResults == SeqsUpTo(StatRecords, MaxRows)

(***************************************************************************)
(* Row Model Normalizer and Date Range Calculator.                         *)
(***************************************************************************)
\* results.data.filter(row => row.date && row.room_id)
NormalizeRows(results) ==
    SelectSeq(results, LAMBDA row : Truthy(row.date) /\ row.room_id # "")

\* Array.prototype.sort on strings: ascending, lexicographic
RECURSIVE Insert(_, _)
Insert(d, sorted) ==
    IF sorted = <<>> THEN <<d>>
    ELSE IF SeqLess(Head(sorted).parts, d.parts)
         THEN <<Head(sorted)>> \o Insert(d, Tail(sorted))
         ELSE <<d>> \o sorted

RECURSIVE Sort(_)
Sort(dates) == IF dates = <<>> THEN <<>> ELSE Insert(Head(dates), Sort(Tail(dates)))

calculateDateRange(data, range) ==
    IF Len(data) = 0 THEN range
    ELSE LET dates == Sort(SelectSeq([i \in 1..Len(data) |-> data[i].date], Truthy))
         IN  [min |-> dates[1], max |-> dates[Len(dates)]]

(***************************************************************************)
(* Formatting.                                                             *)
(***************************************************************************)
\* YYYY-MM-DD to MM/DD; a string that does not split in three is passed through
formatDate(dateStr) ==
    IF ~Truthy(dateStr) THEN Empty
    ELSE IF Len(dateStr.parts) # 3 THEN dateStr
    ELSE Str("/", <<dateStr.parts[2], dateStr.parts[3]>>)

\* YYYY-MM-DD to YYYY/MM/DD
formatDateForDisplay(dateStr) ==
    IF ~Truthy(dateStr) THEN Empty ELSE Str("/", dateStr.parts)

renderStatusCell(status) ==
    IF status = AVAILABLE THEN "status-available" ELSE "status-occupied"

(***************************************************************************)
(* The document, as the handlers see it.                                   *)
(***************************************************************************)
Dom == [datePicker |-> datePicker, tbody |-> tbody, stats |-> stats,
        highlight |-> highlight, timers |-> timers, scroll |-> scroll,
        toast |-> toast, toastTimers |-> toastTimers, nav |-> nav]

Commit(s) ==
    /\ datePicker' = s.datePicker
    /\ tbody' = s.tbody
    /\ stats' = s.stats
    /\ highlight' = s.highlight
    /\ timers' = s.timers
    /\ scroll' = s.scroll
    /\ toast' = s.toast
    /\ toastTimers' = s.toastTimers
    /\ nav' = s.nav

WithinBounds(s) ==
    /\ Len(s.timers) <= MaxTimers
    /\ s.toastTimers <= MaxToastTimers

\* <tr><td colspan="5" class="error">text</td></tr>: a row without a .date-col
ErrorRow(text) ==
    [kind |-> "error", text |-> text, dataDate |-> Empty, dateCol |-> Empty,
     weekday |-> "", weekdayClass |-> "", cells |-> <<>>]

ScheduleRow(row) ==
    [kind |-> "tr", text |-> "", dataDate |-> row.date,
     dateCol |-> formatDate(row.date),
     weekday |-> row.weekday,
     weekdayClass |-> IF row.weekday = "Sat" \/ row.weekday = "Sun"
                      THEN "weekend" ELSE "",
     cells |-> <<renderStatusCell(row.morning), renderStatusCell(row.afternoon),
                 renderStatusCell(row.evening)>>]

\* tbody.innerHTML = ...: the old row elements leave the document; a timer or
\* a remembered target that holds one of them now holds a detached element
SetRows(s, rows) ==
    [s EXCEPT !.tbody = rows,
              !.highlight = {},
              !.timers = [i \in 1..Len(s.timers) |-> 0],
              !.scroll = 0,
              !.nav = [@ EXCEPT !.row = 0]]

updateStats(s, available, occupied) == [s EXCEPT !.stats = <<available, occupied>>]

showError(s, message) == SetRows(s, <<ErrorRow(message)>>)

showToast(s, message) ==
    [s EXCEPT !.toast = [created |-> TRUE, text |-> message, opacity |-> "1"],
              !.toastTimers = @ + 1]

(***************************************************************************)
(* Availability Aggregator and Table Renderer.                             *)
(***************************************************************************)
\* variant: a period counts as occupied only when it holds the occupied string
CountRowOccupiedOnly(row) ==
    <<Cardinality({p \in Periods : row[p] = AVAILABLE}),
      Cardinality({p \in Periods : row[p] = "occupied"})>>

\* the forEach over the three periods of one row: <<available, occupied>>
CountRow(row) ==
    <<Cardinality({p \in Periods : row[p] = AVAILABLE}),
      Cardinality({p \in Periods : row[p] # AVAILABLE})>>

RECURSIVE CountRows(_)
CountRows(rows) ==
    IF rows = <<>> THEN <<0, 0>>
    ELSE LET c == CountRow(Head(rows))
             rest == CountRows(Tail(rows))
         IN  <<c[1] + rest[1], c[2] + rest[2]>>

\* variant: the rows are not filtered by room
renderTableAllRooms(s, data, room) ==
    LET counts == CountRows(data)
    IN  IF Len(data) = 0
        THEN updateStats(SetRows(s, <<ErrorRow(MsgNoData)>>), 0, 0)
        ELSE updateStats(
                 SetRows(s, [i \in 1..Len(data) |-> ScheduleRow(data[i])]),
                 counts[1], counts[2])

renderTable(s, data, room) ==
    LET roomData == SelectSeq(data, LAMBDA row : row.room_id = room)
        counts == CountRows(roomData)
    IN  IF Len(roomData) = 0
        THEN updateStats(SetRows(s, <<ErrorRow(MsgNoData)>>), 0, 0)
        ELSE updateStats(
                 SetRows(s, [i \in 1..Len(roomData) |-> ScheduleRow(roomData[i])]),
                 counts[1], counts[2])

(***************************************************************************)
(* Date Navigator.                                                         *)
(***************************************************************************)
Part(parts, i) == IF i <= Len(parts) THEN parts[i] ELSE -1   \* -1: undefined

SetMax(S) == CHOOSE x \in S : \A y \in S : y <= x

MatchingRows(s, dateStr) ==
    {i \in DOMAIN s.tbody :
        /\ s.tbody[i].kind = "tr"
        /\ s.tbody[i].dateCol =
               Str("/", <<Part(dateStr.parts, 2), Part(dateStr.parts, 3)>>)}

\* variant: the highlights are removed only once a target row was found
jumpToDateKeepOnMiss(s, dateStr) ==
    IF ~Truthy(dateStr) THEN s
    ELSE LET matching == MatchingRows(s, dateStr)
             targetRow == IF matching = {} THEN 0 ELSE SetMax(matching)
         IN  IF targetRow # 0
             THEN [s EXCEPT
                      !.highlight = {},
                      !.scroll = targetRow,
                      !.timers = Append(@, targetRow),
                      !.nav = [state |-> "Found", date |-> dateStr, row |-> targetRow]]
             ELSE showToast(
                      [s EXCEPT !.nav = [@ EXCEPT !.state = "NotFound",
                                                  !.date = dateStr]],
                      MsgNotFound)

\* variant: the highlight is added at once, without the timer
jumpToDateNoDelay(s, dateStr) ==
    IF ~Truthy(dateStr) THEN s
    ELSE LET matching == MatchingRows(s, dateStr)
             targetRow == IF matching = {} THEN 0 ELSE SetMax(matching)
         IN  IF targetRow # 0
             THEN [s EXCEPT
                      !.highlight = {targetRow},
                      !.scroll = targetRow,
                      !.nav = [state |-> "Found", date |-> dateStr, row |-> targetRow]]
             ELSE showToast(
                      [s EXCEPT !.highlight = {},
                                !.nav = [@ EXCEPT !.state = "NotFound",
                                                  !.date = dateStr]],
                      MsgNotFound)

jumpToDate(s, dateStr) ==
    IF ~Truthy(dateStr) THEN s
    ELSE LET matching == MatchingRows(s, dateStr)
             \* the forEach keeps the last matching row
             targetRow == IF matching = {} THEN 0 ELSE SetMax(matching)
             cleared == [s EXCEPT !.highlight = {}]
         IN  IF targetRow # 0
             THEN [cleared EXCEPT
                      !.scroll = targetRow,
                      !.timers = Append(@, targetRow),
                      !.nav = [state |-> "Found", date |-> dateStr, row |-> targetRow]]
             ELSE showToast(
                      [cleared EXCEPT !.nav = [@ EXCEPT !.state = "NotFound",
                                                        !.date = dateStr]],
                      MsgNotFound)

\* assigning to the value of a date input: null becomes the empty string
SetValue(s, v) == [s EXCEPT !.datePicker.value = IF v = Null THEN Empty ELSE v]

\* variant: the boundary notice is shown before jumpToDate runs
todayClickNoticeFirst(s, range, today) ==
    IF JsGe(today, range.min) /\ JsLe(today, range.max)
    THEN jumpToDate(SetValue(s, today), today)
    ELSE IF JsLt(today, range.min)
    THEN jumpToDate(showToast(SetValue(s, range.min), MsgClampLow), range.min)
    ELSE jumpToDate(showToast(SetValue(s, range.max), MsgClampHigh), range.max)

todayClick(s, range, today) ==
    IF JsGe(today, range.min) /\ JsLe(today, range.max)
    THEN jumpToDate(SetValue(s, today), today)
    ELSE IF JsLt(today, range.min)
    THEN showToast(jumpToDate(SetValue(s, range.min), range.min), MsgClampLow)
    ELSE showToast(jumpToDate(SetValue(s, range.max), range.max), MsgClampHigh)

initDatePicker(picker, range, today) ==
    IF Truthy(range.min) /\ Truthy(range.max)
    THEN [min |-> range.min, max |-> range.max,
          value |-> IF JsGe(today, range.min) /\ JsLe(today, range.max)
                    THEN today ELSE range.min]
    ELSE picker

initDateRangeInfo(info, range) ==
    IF Truthy(range.min) /\ Truthy(range.max)
    THEN <<formatDateForDisplay(range.min), formatDateForDisplay(range.max)>>
    ELSE info

\* loadLastUpdate after the fetch settles: "ok", "notok" (a response that is
\* not ok) or "throws" (fetch or response.text() rejects)
loadLastUpdate(label, outcome) ==
    IF outcome = "ok" THEN LabelStamp
    ELSE IF outcome = "throws" THEN LabelUnknown
    ELSE label

FetchOutcomes == {"ok", "notok", "throws"}

(***************************************************************************)
(* Initial state: the script has run, DOMContentLoaded has not fired.      *)
(***************************************************************************)
Init ==
    /\ pc = "idle"
    /\ unhandled = FALSE
    /\ tsPc = "idle"
    /\ lastUpdate = LabelMarkup
    /\ allData = <<>>
    /\ currentRoom = CONFIG.defaultRoom
    /\ dateRange = [min |-> Null, max |-> Null]
    /\ roomSelect = CONFIG.defaultRoom
    /\ datePicker = [value |-> Empty, min |-> Empty, max |-> Empty]
    /\ dateRangeInfo = <<>>
    /\ tbody = <<>>
    /\ stats = <<>>
    /\ highlight = {}
    /\ timers = <<>>
    /\ scroll = 0
    /\ toast = [created |-> FALSE, text |-> "", opacity |-> ""]
    /\ toastTimers = 0
    /\ nav = [state |-> "Idle", date |-> Empty, row |-> 0]

(***************************************************************************)
(* Steps.                                                                  *)
(***************************************************************************)
\* init() up to its await: loadLastUpdate() starts its fetch, loadData()
\* starts the download
DOMContentLoaded ==
    /\ pc = "idle"
    /\ pc' = "loading"
    /\ tsPc' = "fetching"
    /\ UNCHANGED <<unhandled, lastUpdate, allData, currentRoom, dateRange,
                   roomSelect, datePicker, dateRangeInfo, tbody, stats,
                   highlight, timers, scroll, toast, toastTimers, nav>>

LastUpdateSettledWith(outcome) ==
    /\ tsPc = "fetching"
    /\ lastUpdate' = loadLastUpdate(lastUpdate, outcome)
    /\ tsPc' = "done"
    /\ UNCHANGED <<pc, unhandled, allData, currentRoom, dateRange, roomSelect,
                   datePicker, dateRangeInfo, tbody, stats, highlight, timers,
                   scroll, toast, toastTimers, nav>>

LastUpdateSettled == \E outcome \in FetchOutcomes : LastUpdateSettledWith(outcome)

\* Papa's complete callback, then the rest of init() as the microtask that
\* resolve() queues: setupEventListeners, initDatePicker, renderTable
LoadDataComplete(resultSets) ==
    /\ pc = "loading"
    /\ \E results \in resultSets, today \in Todays :
          LET data == NormalizeRows(results)
              range == calculateDateRange(data, dateRange)
              s1 == [Dom EXCEPT !.datePicker = initDatePicker(@, range, today)]
          IN  /\ allData' = data
              /\ dateRange' = range
              /\ dateRangeInfo' = initDateRangeInfo(dateRangeInfo, range)
              /\ Commit(renderTable(s1, data, currentRoom))
    /\ roomSelect' = currentRoom
    /\ pc' = "ready"
    /\ UNCHANGED <<unhandled, tsPc, lastUpdate, currentRoom>>

\* Papa's error callback: showError, reject(error); the await in init() throws,
\* the promise of init() is rejected and the DOMContentLoaded listener, which
\* dropped it, leaves the rejection unhandled
LoadDataError ==
    /\ pc = "loading"
    /\ Commit(showError(Dom, MsgLoadFailed))
    /\ pc' = "rejected"
    /\ unhandled' = TRUE
    /\ UNCHANGED <<tsPc, lastUpdate, allData, currentRoom, dateRange, roomSelect,
                   dateRangeInfo>>

\* variant: the change listener is installed before the data has loaded
RoomChangeEarlyListener ==
    /\ pc # "idle"
    /\ \E r \in RoomIds :
          /\ r # roomSelect
          /\ roomSelect' = r
          /\ currentRoom' = r
          /\ Commit(renderTable(Dom, allData, r))
    /\ UNCHANGED <<pc, unhandled, tsPc, lastUpdate, allData, dateRange, dateRangeInfo>>

\* the user picks another room; the change listener exists once init() has
\* run setupEventListeners
RoomChange ==
    /\ pc # "idle"
    /\ \E r \in RoomIds :
          /\ r # roomSelect
          /\ roomSelect' = r
          /\ IF pc = "ready"
             THEN /\ currentRoom' = r
                  /\ Commit(renderTable(Dom, allData, r))
             ELSE /\ currentRoom' = currentRoom
                  /\ Commit(Dom)
    /\ UNCHANGED <<pc, unhandled, tsPc, lastUpdate, allData, dateRange, dateRangeInfo>>

\* the user picks another date
DateChangeAt(d) ==
    /\ pc # "idle"
    /\ d # datePicker.value
    /\ LET s1 == SetValue(Dom, d)
           s2 == IF pc = "ready" THEN jumpToDate(s1, d) ELSE s1
       IN  WithinBounds(s2) /\ Commit(s2)
    /\ UNCHANGED <<pc, unhandled, tsPc, lastUpdate, allData, currentRoom, dateRange,
                   roomSelect, dateRangeInfo>>

DateChange == \E d \in PickDates : DateChangeAt(d)

\* the user clicks the today button
TodayClickAt(today) ==
    /\ pc = "ready"
    /\ LET s1 == todayClick(Dom, dateRange, today)
       IN  WithinBounds(s1) /\ Commit(s1)
    /\ UNCHANGED <<pc, unhandled, tsPc, lastUpdate, allData, currentRoom, dateRange,
                   roomSelect, dateRangeInfo>>

TodayClick == \E today \in Todays : TodayClickAt(today)

\* the oldest 300 ms timer fires: targetRow.classList.add('highlight-row')
HighlightTimer ==
    /\ timers # <<>>
    /\ timers' = Tail(timers)
    /\ highlight' = IF Head(timers) # 0 THEN highlight \cup {Head(timers)} ELSE highlight
    /\ UNCHANGED <<pc, unhandled, tsPc, lastUpdate, allData, currentRoom, dateRange,
                   roomSelect, datePicker, dateRangeInfo, tbody, stats, scroll,
                   toast, toastTimers, nav>>

\* a 3000 ms timer fires: toast.style.opacity = '0'
ToastTimer ==
    /\ toastTimers > 0
    /\ toastTimers' = toastTimers - 1
    /\ toast' = [toast EXCEPT !.opacity = "0"]
    /\ UNCHANGED <<pc, unhandled, tsPc, lastUpdate, allData, currentRoom, dateRange,
                   roomSelect, datePicker, dateRangeInfo, tbody, stats, highlight,
                   timers, scroll, nav>>

LoadNav == LoadDataComplete(NavResults)
LoadStat == LoadDataComplete(StatResults)

Next ==
    \/ DOMContentLoaded
    \/ LastUpdateSettled
    \/ LoadNav
    \/ LoadDataError
    \/ RoomChange
    \/ DateChange
    \/ TodayClick
    \/ HighlightTimer
    \/ ToastTimer

Spec == Init /\ [][Next]_vars

\* the navigation runs: as Next, without the timestamp fetch, whose label and
\* position no other step reads or writes; the event loop runs every timer
\* that is due
NextNav ==
    \/ DOMContentLoaded
    \/ LoadNav
    \/ LoadDataError
    \/ RoomChange
    \/ DateChange
    \/ TodayClick
    \/ HighlightTimer
    \/ ToastTimer

FairSpec ==
    Init /\ [][NextNav]_vars /\ WF_vars(HighlightTimer) /\ WF_vars(ToastTimer)

\* the statistics runs: loads over every combination of statuses, then room
\* changes
NextStats ==
    \/ DOMContentLoaded
    \/ LastUpdateSettled
    \/ LoadStat
    \/ LoadDataError
    \/ RoomChange

SpecStats == Init /\ [][NextStats]_vars

(***************************************************************************)
(* Properties.                                                             *)
(***************************************************************************)
RoomRows == {i \in DOMAIN allData : allData[i].room_id = currentRoom}

\* a step in which jumpToDate ran past its early return
JumpStep ==
    \/ DateChange /\ pc = "ready" /\ Truthy(datePicker'.value)
    \/ TodayClick /\ Truthy(dateRange.min)

FoundStep == JumpStep /\ nav'.state = "Found"
NotFoundStep == JumpStep /\ nav'.state = "NotFound"

Shown(message) == [created |-> TRUE, text |-> message, opacity |-> "1"]

\* C1: once the table is rendered, the displayed available count plus the
\* displayed occupied count is three times the number of rows of allData
\* whose room_id is currentRoom (0 + 0 when there is none), whatever room
\* changes came before.
C1_CountsCoverEveryPeriod ==
    pc = "ready" =>
        /\ Len(stats) = 2
        /\ stats[1] + stats[2] = 3 * Cardinality(RoomRows)

C1_Witness ==
    /\ pc = "ready"
    /\ currentRoom # CONFIG.defaultRoom
    /\ Cardinality(RoomRows) = 2
    /\ \E i \in RoomRows : allData[i].morning = "closed"
    /\ stats[2] > 0

\* C2: with a data set that loaded empty (dateRange still null/null) a click
\* on the today button changes neither the date picker value, nor the row
\* highlights, nor the toast.
C2_TodayIsNoOpWithoutRange ==
    [][(TodayClick /\ dateRange.min = Null /\ dateRange.max = Null)
           => UNCHANGED <<datePicker, highlight, toast, toastTimers>>]_vars

\* C3: a today click with a defined range and today below the minimum sets the
\* date picker to the minimum, runs jumpToDate on the minimum and leaves the
\* lower-boundary notice showing; above the maximum, the same with the
\* maximum and the upper-boundary notice; whatever the current room holds.
C3_TodayClampsToBoundary ==
    [][\A today \in Todays :
          (TodayClickAt(today) /\ Truthy(dateRange.min) /\ Truthy(dateRange.max)) =>
              /\ JsLt(today, dateRange.min) =>
                    /\ datePicker'.value = dateRange.min
                    /\ nav'.date = dateRange.min
                    /\ nav'.state \in {"Found", "NotFound"}
                    /\ toast' = Shown(MsgClampLow)
              /\ JsLt(dateRange.max, today) =>
                    /\ datePicker'.value = dateRange.max
                    /\ nav'.date = dateRange.max
                    /\ nav'.state \in {"Found", "NotFound"}
                    /\ toast' = Shown(MsgClampHigh)]_vars

\* the current room has no row on the boundary date, and the boundary notice
\* is what the toast shows
C3_Witness ==
    /\ nav.state = "NotFound"
    /\ nav.date = dateRange.min
    /\ datePicker.value = dateRange.min
    /\ toast = Shown(MsgClampLow)
    /\ \A i \in RoomRows : allData[i].date # dateRange.min

\* C4: jumpToDate resolves to Found exactly when a row of the current room is
\* rendered whose MM/DD label is the MM/DD projection of the requested date,
\* and the target is such a row; a date held only by rows of another room
\* resolves to NotFound.
C4_FoundOnlyInCurrentRoom ==
    [][JumpStep =>
          /\ nav'.state = "Found" <=>
                \E i \in RoomRows : formatDate(allData[i].date) = formatDate(nav'.date)
          /\ nav'.state = "Found" =>
                /\ nav'.row \in DOMAIN tbody'
                /\ tbody'[nav'.row].dateCol = formatDate(nav'.date)
                /\ \E i \in RoomRows : allData[i].date = tbody'[nav'.row].dataDate]_vars

\* the date is on a row of the room rendered first, not of the current one
C4_Witness ==
    /\ currentRoom = "G202"
    /\ nav.state = "NotFound"
    /\ nav.date = D2
    /\ \E i \in DOMAIN allData :
          allData[i].room_id = CONFIG.defaultRoom /\ allData[i].date = D2
    /\ \E i \in DOMAIN tbody : tbody[i].kind = "tr"

\* C5, as claimed: a jumpToDate that resolves to NotFound shows the
\* not-found toast and leaves the highlight state of every row as it was.
C5_NotFoundKeepsHighlights ==
    [][NotFoundStep => (toast'.text \in {MsgNotFound, MsgClampLow, MsgClampHigh}
                        /\ highlight' = highlight)]_vars

\* C5, amended: a jumpToDate that resolves to NotFound shows the not-found
\* toast (a today click then replaces it by the boundary notice), replaces no
\* row, scrolls to none and starts no highlight timer, and leaves no rendered
\* row highlighted: a highlight from an earlier Found request is removed.
C5_NotFoundClearsHighlights ==
    [][NotFoundStep =>
          /\ toast'.created /\ toast'.opacity = "1"
          /\ DateChange => toast'.text = MsgNotFound
          /\ highlight' = {}
          /\ tbody' = tbody
          /\ timers' = timers
          /\ scroll' = scroll]_vars

\* every timer has fired, the target of the earlier Found request is still
\* rendered, and the NotFound request left it without its highlight
C5_Witness ==
    /\ nav.state = "NotFound"
    /\ nav.row # 0
    /\ timers = <<>>
    /\ highlight = {}
    /\ toast.text = MsgNotFound

\* C6: after a failed load the table body is the one error row and stays so
\* under every later event; the load is not started again.
C6_LoadFailureIsFinal ==
    /\ [](pc = "rejected" => tbody = <<ErrorRow(MsgLoadFailed)>> /\ allData = <<>>)
    /\ [][pc = "rejected" => pc' = "rejected"]_vars

C6_Witness ==
    /\ pc = "rejected"
    /\ roomSelect # CONFIG.defaultRoom
    /\ datePicker.value # Empty
    /\ tbody = <<ErrorRow(MsgLoadFailed)>>

\* C7: init never ends in an unhandled promise rejection, whether the data
\* load and the timestamp fetch succeed or fail.
C7_NoUnhandledRejection == ~unhandled

\* C8: when the timestamp file is unavailable (the fetch throws, or the
\* response is not ok) the label ends up as the unknown fallback.
C8_UnavailableShowsUnknown ==
    [][\A outcome \in {"notok", "throws"} :
          LastUpdateSettledWith(outcome) => lastUpdate' = LabelUnknown]_vars

\* C9: a jumpToDate that resolves to Found scrolls to the target row and
\* leaves it without the highlight, with a timer pending for it; a row gains
\* the highlight only when the oldest pending timer fires, on that timer's
\* target; and a rendered row with a pending timer is eventually highlighted,
\* unless a render removes it from the document first.
C9_ScrollThenDelayedHighlight ==
    /\ [][FoundStep =>
             /\ scroll' = nav'.row
             /\ nav'.row \notin highlight'
             /\ timers' = Append(timers, nav'.row)]_vars
    /\ [][highlight' \subseteq highlight
             \/ (timers # <<>> /\ timers' = Tail(timers)
                 /\ highlight' = highlight \cup {Head(timers)})]_vars
    /\ \A i \in 1..MaxRows :
          (\E k \in DOMAIN timers : timers[k] = i)
              ~> (i \in highlight \/ \E k \in DOMAIN timers : timers[k] = 0)

C9_Witness ==
    /\ nav.state = "Found"
    /\ nav.row # 0
    /\ scroll = nav.row
    /\ highlight = {nav.row}
    /\ timers = <<>>

\* C10: at most one rendered row carries the highlight, and it is the target
\* of the most recent Found request.
C10_SingleHighlight ==
    /\ Cardinality(highlight) <= 1
    /\ highlight # {} => highlight = {nav.row}

====
